---- MODULE Spec2Model ----
(***************************************************************************)
(* ZeroTrust-FLBench as state machines, one specification per program.     *)
(*                                                                         *)
(* Spec: the single-run orchestrator (scripts/run_one.py).  main() drives  *)
(* one run through manifest instantiation, kubectl apply, the server       *)
(* readiness wait, the network impairment injector, the completion         *)
(* detector, artifact collection and teardown.  The cluster is the set of  *)
(* pods present in the shared namespace, each carrying a run-id and an app *)
(* (role) label.  Every external command is a step whose return code and   *)
(* output are inputs.                                                      *)
(*                                                                         *)
(* IdSpec: the run identifiers invocations of run_one.py compute.          *)
(* MatrixSpec: the campaign driver (scripts/run_matrix_fixed.py).          *)
(* ParseSpec: parse_server_log of scripts/parse_logs.py.                   *)
(*                                                                         *)
(* Each specification moves its own variables and holds the others at the  *)
(* values of the Idle predicates.                                          *)
(***************************************************************************)
EXTENDS Integers, Sequences, FiniteSets, TLC

\* ------------------------------------------------------------------ bounds

\* Client pods the manifest of the current run creates (--num-clients).
NumClients == 2

\* Polls of one wait loop whose commands return at once; every later poll
\* of that loop has a command that stalls for the length of the timeout.
MaxPolls == 2

\* --------------------------------------------------------- program constants

ServerReadyTimeout == 300
ServerPollSleep == 2
MaxAttempts == 5
CompletionInitialSleep == 5
NotFoundSleep == 5
CompletionPollSleep == 10
CleanupMaxWait == 60
CleanupPollSleep == 3

Profiles == {"NET0", "NET1", "NET2", "NET3", "NET4", "NET5"}

\* Pod phases a phase query can print; "" is the empty output of a query
\* that matched nothing or failed.
Phases == {"Pending", "Running", "Succeeded", "Failed", "Error", "Unknown"}

\* ------------------------------------------------------------------ cluster

RunId == "cur"
PriorRunId == "old"

ClientPod(r, i) == [run |-> r, app |-> "fl-client", n |-> i]
ServerPod(r) == [run |-> r, app |-> "fl-server", n |-> 0]

\* What kubectl apply of the run's manifest creates: one server, the clients.
OwnClients == {ClientPod(RunId, i) : i \in 1..NumClients}
OwnPods == OwnClients \cup {ServerPod(RunId)}

\* Pods a prior run may have left behind, still terminating.
StalePods == {ClientPod(PriorRunId, 1)}

\* A label selector is a set of <<key, value>> requirements.
Matches(p, sel) == \A kv \in sel : p[kv[1]] = kv[2]
Select(pods_, sel) == {p \in pods_ : Matches(p, sel)}

\* jsonpath={.items[*].metadata.name}: the matching pods, listed in name order.
RECURSIVE Listing(_)
Listing(S) ==
  IF S = {} THEN <<>>
  ELSE LET p == CHOOSE x \in S : \A y \in S : x.n <= y.n
       IN <<p>> \o Listing(S \ {p})

\* ------------------------------------------------------------------- state

VARIABLES
  profile,    \* args.net_profile
  pc,         \* position in main()
  events,     \* phase-level steps so far, in order, each named by the
              \* log_event it prints (manifest_applied: the command_end of
              \* kubectl apply; debug_skipped: prints nothing); the
              \* per-command and per-attempt events are left out
  present,    \* pods present in the namespace
  tempFile,   \* /tmp/fl-deployment-<run_id>.yaml exists
  exitCode,   \* -1 while running, else the process exit status
  elapsed,    \* time.time() - start of the wait loop in progress
  polls,      \* iterations of the wait loop in progress that did not stall
  netCalls,   \* external commands apply_network_profile has issued
  waited,     \* pods the readiness wait of apply_network_profile selected
  pods,       \* apply_network_profile's local list of resolved pods
  idx,        \* index into pods of the client being impaired
  attempt,    \* attempt number of the retry loop
  lastCmd,    \* the most recent netem_apply.sh command and its outcome
  impaired,   \* pods on which netem_apply.sh has succeeded
  timeout,    \* main's completion timeout (0 before it is computed)
  obs,        \* what the completion detector's latest poll saw
  verdict,    \* the return site wait_for_completion left through
  deleted,    \* the kubectl delete of cleanup succeeded
  cleanupRet, \* where cleanup returns to
  logDir,     \* the output_dir collect_logs was last called with
  unlinkErr   \* the latest temp_manifest.unlink() raised

\* The campaign driver (scripts/run_matrix_fixed.py).
VARIABLES
  tier,          \* args.tier
  dry_run,       \* args.dry_run
  resume_from,   \* args.resume_from
  configs,       \* main's list of configurations (<<>> before it is built)
  expIdx,        \* the loop index i of main's for loop, 0-based
  success_count, \* main's success_count
  fail_count,    \* main's fail_count
  mpc,           \* position in the driver's main()
  executed,      \* indices of the configurations run_one.py was started for
  active,        \* indices whose run_one.py process has not returned yet
  namespace,     \* the fl-experiment namespace: "present" or "absent"
  status         \* -1 while the driver runs, else its exit status

VARIABLES
  launched       \* the run started last: the configuration's split mode,
                 \* the --iid flag of run_one.py's command line and of the
                 \* client arguments in the manifest it applied

\* scripts/run_matrix.py, the driver that runs each configuration itself;
\* its main() has the variables of run_matrix_fixed.py's.
VARIABLES
  last_run,      \* what run_single_experiment did for the configuration
                 \* run last, until main has counted it
  faults         \* commands and waits that have failed so far

\* Invocations of run_one.py and the identifiers they generate.
VARIABLES
  clock,         \* int(time.time())
  ticks,         \* seconds passed since the first state
  issued         \* one record per invocation, in order: its arguments and
                 \* the run_id it computed

\* parse_server_log (scripts/parse_logs.py).
VARIABLES
  rounds,        \* parse_server_log's list of round records
  entry,         \* the line read last
  lineNo,        \* lines read so far
  ppc,           \* "reading", then "returned" or "raised"; in parse_run
                 \* then "framed", then "summarized" or "key_error"
  columns,       \* the columns of parse_run's rounds_df; {} while it is None
  summary        \* parse_run's result["summary"]: <<>> while it is empty

\* The FL server (src/fl_server.py) whose log the parser reads.
VARIABLES
  spc,           \* position in the server's main(): "init", "serving", "ended"
  server_round,  \* the round the strategy was last configured for
  round_open,    \* configure_fit ran for it and aggregate_fit has not yet
  wall,          \* time.time(), in seconds
  tta_reached,   \* the target accuracies reached so far
  serverLog      \* the JSON objects logged so far, in order

runVars == <<profile, pc, events, present, tempFile, exitCode, elapsed, polls,
             netCalls, waited, pods, idx, attempt, lastCmd, impaired, timeout,
             obs, verdict, deleted, cleanupRet, logDir, unlinkErr>>
matrixVars == <<tier, dry_run, resume_from, configs, expIdx, success_count,
                fail_count, mpc, executed, active, namespace, status,
                launched, last_run, faults>>
idVars == <<clock, ticks, issued>>
serverVars == <<spc, server_round, round_open, wall, tta_reached, serverLog>>
parseVars == <<rounds, entry, lineNo, ppc, columns, summary, serverVars>>

vars == <<runVars, matrixVars, idVars, parseVars>>

\* A line that is no JSON document; also the value of entry before any line.
NotJson == [event |-> "not_json", round |-> 0, timestamp |-> 0]

\* No call of run_single_experiment is waiting to be counted.
NoRun ==
  [net_profile |-> "none", network |-> "None", impaired |-> FALSE,
   reached |-> "none", expired |-> FALSE, success |-> FALSE]

\* The parts of the state a specification does not move.
\* No run has been started.
NotLaunched ==
  [data_dist |-> "none", cmd_iid |-> FALSE, applied |-> FALSE,
   client_iid |-> FALSE]

MatrixIdle ==
  /\ tier = "core"
  /\ dry_run = FALSE
  /\ resume_from = 0
  /\ configs = <<>>
  /\ expIdx = 0
  /\ success_count = 0
  /\ fail_count = 0
  /\ mpc = "idle"
  /\ executed = <<>>
  /\ active = {}
  /\ namespace = "present"
  /\ status = -1
  /\ launched = NotLaunched
  /\ last_run = NoRun
  /\ faults = 0

IdIdle ==
  /\ clock = 0
  /\ ticks = 0
  /\ issued = <<>>

ServerIdle ==
  /\ spc = "idle"
  /\ server_round = 0
  /\ round_open = FALSE
  /\ wall = 0
  /\ tta_reached = {}
  /\ serverLog = <<>>

ParseIdle ==
  /\ ServerIdle
  /\ rounds = <<>>
  /\ entry = NotJson
  /\ lineNo = 0
  /\ ppc = "idle"
  /\ columns = {}
  /\ summary = <<>>

NoCmd == [pod |-> ServerPod("none"), attempt |-> 0, ok |-> FALSE]
NoObs == [found |-> FALSE, marker |-> FALSE, queried |-> FALSE, phase |-> ""]

Has(e) == \E i \in 1..Len(events) : events[i] = e
Pos(e) == CHOOSE i \in 1..Len(events) : events[i] = e
Before(a, b) == Has(a) /\ Has(b) /\ Pos(a) < Pos(b)

Init ==
  /\ profile \in Profiles
  /\ pc = "start"
  /\ events = <<"experiment_start">>
  /\ present \in SUBSET StalePods
  /\ tempFile = FALSE
  /\ exitCode = -1
  /\ elapsed = 0
  /\ polls = 0
  /\ netCalls = {}
  /\ waited = {}
  /\ pods = <<>>
  /\ idx = 0
  /\ attempt = 0
  /\ lastCmd = NoCmd
  /\ impaired = {}
  /\ timeout = 0
  /\ obs = NoObs
  /\ verdict = "none"
  /\ deleted = FALSE
  /\ cleanupRet = "none"
  /\ logDir = "none"
  /\ unlinkErr = FALSE
  /\ MatrixIdle
  /\ IdIdle
  /\ ParseIdle

\* No run_one.py process in the picture.
RunIdle ==
  /\ profile = "NET0"
  /\ pc = "idle"
  /\ events = <<>>
  /\ present = {}
  /\ tempFile = FALSE
  /\ exitCode = -1
  /\ elapsed = 0
  /\ polls = 0
  /\ netCalls = {}
  /\ waited = {}
  /\ pods = <<>>
  /\ idx = 0
  /\ attempt = 0
  /\ lastCmd = NoCmd
  /\ impaired = {}
  /\ timeout = 0
  /\ obs = NoObs
  /\ verdict = "none"
  /\ deleted = FALSE
  /\ cleanupRet = "none"
  /\ logDir = "none"
  /\ unlinkErr = FALSE

netVars == <<netCalls, waited, pods, idx, attempt, lastCmd, impaired>>
waitVars == <<timeout, obs, verdict>>
cleanVars == <<deleted, cleanupRet>>
artVars == <<logDir, unlinkErr>>

\* A poll's commands either return at once or stall for the loop's timeout.
Stalls(limit) == {0, limit}

\* -------------------------------------------------------------- main, part 1

\* manifest_path.exists(); a missing template logs and exits 1 (the finally
\* clause finds no temp file to remove).
CheckManifest ==
  /\ pc = "start"
  /\ \E exists \in BOOLEAN :
       IF exists
       THEN /\ pc' = "inject"
            /\ UNCHANGED <<events, exitCode>>
       ELSE /\ events' = Append(events, "manifest_not_found")
            /\ exitCode' = 1
            /\ pc' = "done"
  /\ UNCHANGED <<profile, present, tempFile, elapsed, polls>>
  /\ UNCHANGED <<netVars, waitVars, cleanVars>>
  /\ UNCHANGED artVars
  /\ UNCHANGED <<matrixVars, idVars, parseVars>>

\* inject_run_id writes the temp manifest; a file error raises, before or
\* after open() created the file.
InjectRunId ==
  /\ pc = "inject"
  /\ \E ok \in BOOLEAN :
       IF ok
       THEN /\ tempFile' = TRUE
            /\ events' = Append(events, "manifest_prepared")
            /\ pc' = "apply"
       ELSE /\ pc' = "handler"
            /\ tempFile' \in BOOLEAN
            /\ UNCHANGED events
  /\ UNCHANGED <<profile, present, exitCode, elapsed, polls>>
  /\ UNCHANGED <<netVars, waitVars, cleanVars>>
  /\ UNCHANGED artVars
  /\ UNCHANGED <<matrixVars, idVars, parseVars>>

\* run_command(["kubectl", "apply", ...]) with check=True: a non-zero return
\* raises, possibly after some resources were created.
ApplyManifest ==
  /\ pc = "apply"
  /\ \E ok \in BOOLEAN :
       IF ok
       THEN /\ present' = present \cup OwnPods
            /\ events' = events \o <<"apply_manifest", "manifest_applied">>
            /\ pc' = "wait_server"
       ELSE /\ \E S \in {{}, {ServerPod(RunId)}} : present' = present \cup S
            /\ events' = Append(events, "apply_manifest")
            /\ pc' = "handler"
  /\ elapsed' = 0
  /\ polls' = 0
  /\ UNCHANGED <<profile, tempFile, exitCode>>
  /\ UNCHANGED <<netVars, waitVars, cleanVars>>
  /\ UNCHANGED artVars
  /\ UNCHANGED <<matrixVars, idVars, parseVars>>

\* A main that goes on to the injector whatever wait_for_server_ready returned.
AfterServerWaitIgnored(ready) == "net"

\* main's branch on wait_for_server_ready's result: go on to the injector, or
\* clean up and exit 1.
AfterServerWait(ready) == IF ready THEN "net" ELSE "cleanup"

\* One iteration of wait_for_server_ready's loop, or its exit on timeout,
\* with main's handling of a False result (experiment_failed, cleanup, exit).
WaitServerPoll ==
  /\ pc = "wait_server"
  /\ IF elapsed < ServerReadyTimeout
     THEN \E phase \in Phases \cup {""}, d \in Stalls(ServerReadyTimeout) :
            IF phase = "Running"
            THEN /\ events' = Append(events, "wait_server_ready")
                 /\ pc' = AfterServerWait(TRUE)
                 /\ elapsed' = 0
                 /\ polls' = 0
                 /\ UNCHANGED cleanupRet
            ELSE /\ d = 0 => polls < MaxPolls
                 /\ elapsed' = elapsed + d + ServerPollSleep
                 /\ polls' = IF d = 0 THEN polls + 1 ELSE polls
                 /\ UNCHANGED <<events, pc, cleanupRet>>
     ELSE /\ events' = events \o <<"wait_server_timeout", "experiment_failed">>
          /\ pc' = AfterServerWait(FALSE)
          /\ cleanupRet' = "exit1"
          /\ elapsed' = 0
          /\ polls' = 0
  /\ UNCHANGED <<profile, present, tempFile, exitCode, deleted>>
  /\ UNCHANGED <<netVars, waitVars>>
  /\ UNCHANGED artVars
  /\ UNCHANGED <<matrixVars, idVars, parseVars>>

\* ------------------------------------------------- apply_network_profile

\* A baseline test against a name no profile has.
IsBaselineMisnamed(p) == p = "baseline"

\* if profile == "NET0"
IsBaseline(p) == p = "NET0"

\* A bare role selector.
NetSelectorBare(r) == {<<"app", "fl-client">>}

\* selector = f"app=fl-client,run-id={run_id}"
NetSelector(r) == {<<"app", "fl-client">>, <<"run", r>>}

\* Entry of apply_network_profile (after main's time.sleep(10)): the baseline
\* returns at once; otherwise wait_pods_ready runs kubectl wait on the
\* selector, which succeeds only if some pod matches and all that match are
\* Ready in time, and a failure raises.
NetEntry ==
  /\ pc = "net"
  /\ IF IsBaseline(profile)
     THEN /\ events' = Append(events, "network_profile_skip")
          /\ pc' = "wait_completion"
          /\ UNCHANGED <<netCalls, waited>>
     ELSE /\ netCalls' = netCalls \cup {"kubectl_wait"}
          /\ waited' = Select(present, NetSelector(RunId))
          /\ \E ok \in BOOLEAN :
               /\ ok => waited' # {}
               /\ IF ok
                  THEN /\ events' = Append(events, "network_profile_wait_ready")
                       /\ pc' = "net_get"
                  ELSE /\ events' = events \o <<"network_profile_wait_ready",
                                                "network_profile_failed">>
                       /\ pc' = "handler"
  /\ UNCHANGED <<profile, present, tempFile, exitCode, elapsed, polls>>
  /\ UNCHANGED <<pods, idx, attempt, lastCmd, impaired>>
  /\ UNCHANGED <<waitVars, cleanVars>>
  /\ UNCHANGED artVars
  /\ UNCHANGED <<matrixVars, idVars, parseVars>>

\* kubectl get pods -l selector (check=False): a failed query prints nothing;
\* an empty list raises.
NetGetPods ==
  /\ pc = "net_get"
  /\ netCalls' = netCalls \cup {"kubectl_get_pods"}
  /\ \E rcOk \in BOOLEAN :
       /\ pods' = IF rcOk THEN Listing(Select(present, NetSelector(RunId)))
                  ELSE <<>>
       /\ IF pods' = <<>>
          THEN /\ events' = Append(events, "network_profile_failed")
               /\ pc' = "handler"
               /\ UNCHANGED <<idx, attempt>>
          ELSE /\ events' = Append(events, "network_profile_apply_start")
               /\ pc' = "net_apply"
               /\ idx' = 1
               /\ attempt' = 1
  /\ UNCHANGED <<profile, present, tempFile, exitCode, elapsed, polls>>
  /\ UNCHANGED <<waited, lastCmd, impaired>>
  /\ UNCHANGED <<waitVars, cleanVars>>
  /\ UNCHANGED artVars
  /\ UNCHANGED <<matrixVars, idVars, parseVars>>

\* A pod loop that moves on to the next pod when the attempts are exhausted.
AfterAttemptNoRaise(ok, i, a, n) ==
  IF ok \/ a >= MaxAttempts
  THEN IF i < n THEN [pc |-> "net_apply", idx |-> i + 1, attempt |-> 1]
       ELSE [pc |-> "net_done", idx |-> i, attempt |-> a]
  ELSE [pc |-> "net_apply", idx |-> i, attempt |-> a + 1]

\* A retry loop written range(1, 7).
AfterAttemptOneMore(ok, i, a, n) ==
  IF ok
  THEN IF i < n THEN [pc |-> "net_apply", idx |-> i + 1, attempt |-> 1]
       ELSE [pc |-> "net_done", idx |-> i, attempt |-> a]
  ELSE IF a < MaxAttempts + 1
       THEN [pc |-> "net_apply", idx |-> i, attempt |-> a + 1]
       ELSE [pc |-> "net_raise", idx |-> i, attempt |-> a]

\* Where the nested loops go after an attempt on pods[i] returned ok: break
\* to the next pod (or fall out of the outer loop) on success, retry up to
\* MaxAttempts, and raise when the inner loop ends with success still False.
AfterAttempt(ok, i, a, n) ==
  IF ok
  THEN IF i < n THEN [pc |-> "net_apply", idx |-> i + 1, attempt |-> 1]
       ELSE [pc |-> "net_done", idx |-> i, attempt |-> a]
  ELSE IF a < MaxAttempts
       THEN [pc |-> "net_apply", idx |-> i, attempt |-> a + 1]
       ELSE [pc |-> "net_raise", idx |-> i, attempt |-> a]

\* One run of netem_apply.sh for pods[idx] (check=False).
NetemAttempt ==
  /\ pc = "net_apply"
  /\ netCalls' = netCalls \cup {"netem_apply"}
  /\ \E ok \in BOOLEAN :
       LET nxt == AfterAttempt(ok, idx, attempt, Len(pods)) IN
       /\ lastCmd' = [pod |-> pods[idx], attempt |-> attempt, ok |-> ok]
       /\ impaired' = IF ok THEN impaired \cup {pods[idx]} ELSE impaired
       /\ idx' = nxt.idx
       /\ attempt' = nxt.attempt
       /\ IF nxt.pc = "net_done"
          THEN /\ events' = Append(events, "network_profile_apply_complete")
               /\ pc' = "wait_completion"
          ELSE IF nxt.pc = "net_raise"
          THEN /\ events' = Append(events, "network_profile_apply_failed")
               /\ pc' = "handler"
          ELSE /\ pc' = "net_apply"
               /\ UNCHANGED events
  /\ UNCHANGED <<profile, present, tempFile, exitCode, elapsed, polls>>
  /\ UNCHANGED <<waited, pods>>
  /\ UNCHANGED <<waitVars, cleanVars>>
  /\ UNCHANGED artVars
  /\ UNCHANGED <<matrixVars, idVars, parseVars>>

\* ---------------------------------------------------- wait_for_completion

\* One timeout for every profile.
CompletionTimeoutFlat(p) == 3600 + 0

\* timeout = 7200 if args.net_profile == "NET2" else 3600
CompletionTimeout(p) == IF p = "NET2" THEN 7200 ELSE 3600

\* A failure test that knows the Failed phase only.
FailurePhasesNarrow == {"Failed"}

\* phase in ["Failed", "Error", "Unknown"]
FailurePhases == {"Failed", "Error", "Unknown"}

\* What one poll decides from what it saw: no server pod name -> sleep 5 and
\* poll again; the marker in the log -> True; else a successful phase query
\* showing a failure phase -> False; else sleep 10 and poll again.
PollOutcome(o) ==
  IF ~o.found THEN "not_found"
  ELSE IF o.marker THEN "success"
  ELSE IF o.queried /\ o.phase \in FailurePhases THEN "phase_failed"
  ELSE "again"

\* A detector that logs the timeout as it logs a failed phase.
CompletionEventMerged(v) ==
  IF v = "success" THEN "wait_completion_success" ELSE "wait_completion_failed"

\* The event each return site of wait_for_completion logs.
CompletionEvent(v) ==
  IF v = "success" THEN "wait_completion_success"
  ELSE IF v = "phase_failed" THEN "wait_completion_failed"
  ELSE "wait_completion_timeout"

\* main computes the timeout and calls wait_for_completion, which logs,
\* takes start and sleeps 5 s before its first poll.
WaitCompletionStart ==
  /\ pc = "wait_completion"
  /\ timeout' = CompletionTimeout(profile)
  /\ events' = Append(events, "wait_completion_start")
  /\ elapsed' = CompletionInitialSleep
  /\ polls' = 0
  /\ pc' = "wc_poll"
  /\ UNCHANGED <<profile, present, tempFile, exitCode, obs, verdict>>
  /\ UNCHANGED <<netVars, cleanVars>>
  /\ UNCHANGED artVars
  /\ UNCHANGED <<matrixVars, idVars, parseVars>>

\* One iteration of the polling loop, or its exit on timeout.  obs records
\* the poll: found (the name lookup printed a pod), marker (kubectl logs
\* returned 0 and printed the experiment_end event), queried (the phase query
\* returned 0) and phase, the server pod's phase at that poll ("" if there is
\* no server pod).
WaitCompletionPoll ==
  /\ pc = "wc_poll"
  /\ IF elapsed < timeout
     THEN \E o \in [found : BOOLEAN, marker : BOOLEAN, queried : BOOLEAN,
                    phase : Phases \cup {""}],
             d \in Stalls(timeout) :
            /\ o.found => o.phase # ""
            /\ o.marker => o.found
            /\ o.queried => (o.found /\ ~o.marker)
            /\ obs' = o
            /\ IF PollOutcome(o) \in {"success", "phase_failed"}
               THEN /\ verdict' = PollOutcome(o)
                    /\ events' = Append(events, CompletionEvent(verdict'))
                    /\ pc' = "wc_return"
                    /\ UNCHANGED <<elapsed, polls>>
               ELSE /\ d = 0 => polls < MaxPolls
                    /\ elapsed' = elapsed + d +
                         (IF PollOutcome(o) = "not_found" THEN NotFoundSleep
                          ELSE CompletionPollSleep)
                    /\ polls' = IF d = 0 THEN polls + 1 ELSE polls
                    /\ UNCHANGED <<verdict, events, pc>>
     ELSE /\ verdict' = "timeout"
          /\ events' = Append(events, CompletionEvent(verdict'))
          /\ pc' = "wc_return"
          /\ UNCHANGED <<obs, elapsed, polls>>
  /\ UNCHANGED <<profile, present, tempFile, exitCode, timeout>>
  /\ UNCHANGED <<netVars, cleanVars>>
  /\ UNCHANGED artVars
  /\ UNCHANGED <<matrixVars, idVars, parseVars>>

\* main's branch on wait_for_completion's result.
WaitCompletionReturn ==
  /\ pc = "wc_return"
  /\ IF verdict = "success"
     THEN /\ pc' = "collect_logs"
          /\ UNCHANGED events
     ELSE /\ events' = Append(events, "experiment_failed")
          /\ pc' = "fail_debug"
  /\ obs' = NoObs
  /\ elapsed' = 0
  /\ polls' = 0
  /\ UNCHANGED <<profile, present, tempFile, exitCode, timeout, verdict>>
  /\ UNCHANGED <<netVars, cleanVars>>
  /\ UNCHANGED artVars
  /\ UNCHANGED <<matrixVars, idVars, parseVars>>

\* ------------------------------------------------------ main, failure branch

\* debug_dir.mkdir (may raise) and collect_debug_info (absorbs its errors).
FailDebug ==
  /\ pc = "fail_debug"
  /\ \E r \in {"raise", "debug_collected", "debug_collection_failed"} :
       IF r = "raise"
       THEN /\ pc' = "handler"
            /\ UNCHANGED events
       ELSE /\ events' = Append(events, r)
            /\ pc' = "fail_logs"
  /\ UNCHANGED <<profile, present, tempFile, exitCode, elapsed, polls>>
  /\ UNCHANGED <<netVars, waitVars, cleanVars>>
  /\ UNCHANGED artVars
  /\ UNCHANGED <<matrixVars, idVars, parseVars>>

\* collect_logs in the failure branch, called with args.output_dir itself,
\* then cleanup and sys.exit(1).
FailCollectLogs ==
  /\ pc = "fail_logs"
  /\ logDir' = "output_dir"
  /\ unlinkErr' = unlinkErr
  /\ \E ok \in BOOLEAN :
       IF ok
       THEN /\ events' = Append(events, "logs_collect_end")
            /\ pc' = "cleanup"
            /\ cleanupRet' = "exit1"
       ELSE /\ pc' = "handler"
            /\ UNCHANGED <<events, cleanupRet>>
  /\ UNCHANGED <<profile, present, tempFile, exitCode, elapsed, polls, deleted>>
  /\ UNCHANGED <<netVars, waitVars>>
  /\ UNCHANGED <<matrixVars, idVars, parseVars>>

\* ------------------------------------------------------ main, success branch

\* collect_logs called with output_dir_run = args.output_dir / run_id.
CollectLogs ==
  /\ pc = "collect_logs"
  /\ logDir' = "run_dir"
  /\ unlinkErr' = unlinkErr
  /\ \E ok \in BOOLEAN :
       IF ok
       THEN /\ events' = Append(events, "logs_collect_end")
            /\ pc' = "save_meta"
       ELSE /\ pc' = "handler"
            /\ UNCHANGED events
  /\ UNCHANGED <<profile, present, tempFile, exitCode, elapsed, polls>>
  /\ UNCHANGED <<netVars, waitVars, cleanVars>>
  /\ UNCHANGED <<matrixVars, idVars, parseVars>>

\* save_metadata(output_dir_run, run_id, config_dict); a file error raises.
SaveMetadata ==
  /\ pc = "save_meta"
  /\ \E ok \in BOOLEAN :
       IF ok
       THEN /\ events' = Append(events, "metadata_saved")
            /\ pc' = "cleanup"
            /\ cleanupRet' = "success"
       ELSE /\ pc' = "handler"
            /\ UNCHANGED <<events, cleanupRet>>
  /\ UNCHANGED <<profile, present, tempFile, exitCode, elapsed, polls, deleted>>
  /\ UNCHANGED <<netVars, waitVars>>
  /\ UNCHANGED artVars
  /\ UNCHANGED <<matrixVars, idVars, parseVars>>

\* ------------------------------------------------------ except Exception

\* A removal that leaves the file where it is.
UnlinkForgotten(exists, ok) == exists

\* if temp_manifest.exists(): temp_manifest.unlink(), inside try/except: pass.
\* Whether the file exists afterwards: it is gone unless unlink raised.
Unlink(exists, ok) == exists /\ ~ok

\* The handler logs experiment_error, tries the debug capture inside a
\* try/except (debug_skipped: mkdir raised there, nothing is printed),
\* unlinks the temp manifest inside another, then calls cleanup and exits 1.
Handler ==
  /\ pc = "handler"
  /\ \E r \in {"debug_collected", "debug_collection_failed", "debug_skipped"} :
       events' = events \o <<"experiment_error", r>>
  /\ \E ok \in BOOLEAN :
       /\ tempFile' = Unlink(tempFile, ok)
       /\ unlinkErr' = (tempFile /\ ~ok)
  /\ pc' = "cleanup"
  /\ cleanupRet' = "exit1"
  /\ UNCHANGED <<profile, present, exitCode, elapsed, polls, deleted, logDir>>
  /\ UNCHANGED <<netVars, waitVars>>
  /\ UNCHANGED <<matrixVars, idVars, parseVars>>

\* ----------------------------------------------------------------- cleanup

\* -l f"run-id={run_id}"
RunSelector(r) == {<<"run", r>>}

\* kubectl delete jobs,deployments,services -l run-id=<id> (check=False).
CleanupDelete ==
  /\ pc = "cleanup"
  /\ events' = Append(events, "cleanup_start")
  /\ \E ok \in BOOLEAN : deleted' = ok
  /\ elapsed' = 0
  /\ polls' = 0
  /\ pc' = "cleanup_poll"
  /\ UNCHANGED <<profile, present, tempFile, exitCode, cleanupRet>>
  /\ UNCHANGED <<netVars, waitVars>>
  /\ UNCHANGED artVars
  /\ UNCHANGED <<matrixVars, idVars, parseVars>>

\* The stdout of cleanup's kubectl get pods (check=False): the run's pods,
\* or nothing when the query failed.
CleanupListing(rcOk, now) ==
  IF rcOk THEN Select(now, RunSelector(RunId)) ELSE {}

\* One iteration of cleanup's wait loop, or its exit after max_wait.  Pods of
\* a deleted run terminate while the loop runs.
CleanupPoll ==
  /\ pc = "cleanup_poll"
  /\ IF elapsed < CleanupMaxWait
     THEN \E gone \in SUBSET Select(present, RunSelector(RunId)),
             rcOk \in BOOLEAN, d \in Stalls(CleanupMaxWait) :
            /\ ~deleted => gone = {}
            /\ present' = present \ gone
            /\ IF CleanupListing(rcOk, present') = {}
               THEN /\ events' = Append(events, "cleanup_end")
                    /\ pc' = "cleanup_done"
                    /\ UNCHANGED <<elapsed, polls>>
               ELSE /\ d = 0 => polls < MaxPolls
                    /\ elapsed' = elapsed + d + CleanupPollSleep
                    /\ polls' = IF d = 0 THEN polls + 1 ELSE polls
                    /\ UNCHANGED <<events, pc>>
     ELSE /\ events' = Append(events, "cleanup_end")
          /\ pc' = "cleanup_done"
          /\ UNCHANGED <<present, elapsed, polls>>
  /\ UNCHANGED <<profile, tempFile, exitCode>>
  /\ UNCHANGED <<netVars, waitVars, cleanVars>>
  /\ UNCHANGED artVars
  /\ UNCHANGED <<matrixVars, idVars, parseVars>>

\* A main that ends every path by falling off its end.
ExitStatusZero(ret) == 0

\* The process exit status: main returns normally after experiment_success
\* (status 0); every other path leaves through sys.exit(1).
ExitStatus(ret) == IF ret = "success" THEN 0 ELSE 1

\* Back in main: experiment_success on the success path, sys.exit(1) on the
\* others; the finally clause tries to remove the temp manifest.
CleanupReturn ==
  /\ pc = "cleanup_done"
  /\ IF cleanupRet = "success"
     THEN events' = Append(events, "experiment_success")
     ELSE UNCHANGED events
  /\ exitCode' = ExitStatus(cleanupRet)
  /\ \E ok \in BOOLEAN :
       /\ tempFile' = Unlink(tempFile, ok)
       /\ unlinkErr' = (tempFile /\ ~ok)
  /\ pc' = "done"
  /\ elapsed' = 0
  /\ polls' = 0
  /\ UNCHANGED <<profile, present, logDir>>
  /\ UNCHANGED <<netVars, waitVars, cleanVars>>
  /\ UNCHANGED <<matrixVars, idVars, parseVars>>

Next ==
  \/ CheckManifest \/ InjectRunId \/ ApplyManifest \/ WaitServerPoll
  \/ NetEntry \/ NetGetPods \/ NetemAttempt
  \/ WaitCompletionStart \/ WaitCompletionPoll \/ WaitCompletionReturn
  \/ FailDebug \/ FailCollectLogs \/ CollectLogs \/ SaveMetadata
  \/ Handler \/ CleanupDelete \/ CleanupPoll \/ CleanupReturn

Spec == Init /\ [][Next]_vars

\* ------------------------------------------------------------------ claims

\* The client pods of the current run.
CurrentClients == {p \in OwnPods \cup StalePods \cup present :
                     p.run = RunId /\ p.app = "fl-client"}

\* Control is back in main after apply_network_profile returned normally.
NetReturned == pc = "wait_completion" \/ Has("wait_completion_start")

\* The latest impairment command was a fifth failed attempt.
Exhausted == lastCmd # NoCmd /\ ~lastCmd.ok /\ lastCmd.attempt = 5

AfterFailurePcs == {"handler", "cleanup", "cleanup_poll", "cleanup_done", "done"}

\* C1: for a non-baseline profile apply_network_profile returns normally only
\* if the readiness wait selected pods, the resolved list is non-empty and
\* every resolved pod has had a successful impairment attempt; after a failed
\* readiness wait, an empty resolution or a client whose attempts are
\* exhausted, control never returns to main's next statement.
C1_AllOrNothing ==
  ~(profile = "NET0") =>
    /\ NetReturned =>
         /\ waited # {}
         /\ pods # <<>>
         /\ \A i \in 1..Len(pods) : pods[i] \in impaired
    /\ (Has("network_profile_failed") \/ Has("network_profile_apply_failed")
        \/ Exhausted) => ~NetReturned

C1_Witness ==
  /\ ~(profile = "NET0")
  /\ pc = "wait_completion"
  /\ Len(pods) >= 2
  /\ lastCmd.attempt > 1

\* The step issues an impairment command: the first goes to the first
\* resolved client as attempt 1; after a success the next goes to the next
\* client as attempt 1; after a failure the next goes to the same client with
\* the next attempt number, and there is none after a fifth failure.
C2_Step ==
  (lastCmd' # lastCmd) =>
    /\ lastCmd'.attempt \in 1..5
    /\ IF lastCmd = NoCmd
       THEN lastCmd'.pod = pods[1] /\ lastCmd'.attempt = 1
       ELSE IF lastCmd.ok
       THEN /\ lastCmd'.attempt = 1
            /\ \E i \in 1..(Len(pods) - 1) :
                 pods[i] = lastCmd.pod /\ pods[i + 1] = lastCmd'.pod
       ELSE /\ lastCmd.attempt < 5
            /\ lastCmd'.pod = lastCmd.pod
            /\ lastCmd'.attempt = lastCmd.attempt + 1

C2_Failed ==
  Exhausted =>
    /\ pc \in AfterFailurePcs
    /\ ~Has("wait_completion_start")
    /\ pc = "done" => exitCode = 1

\* C2: impairment commands visit the resolved clients one after another, each
\* client's attempts are consecutive, stop at its first success and number at
\* most 5; after a client's fifth failure the run fails (exit 1, no
\* completion wait) and no command is issued for any later client.
C2_RetryOrder == [][C2_Step]_vars /\ []C2_Failed

C2_Witness ==
  /\ Exhausted
  /\ pc = "done"
  /\ Len(pods) >= 2
  /\ lastCmd.pod = pods[1]

\* C3: the readiness wait, the resolved list and every impairment command
\* touch only pods labelled with the current run id and the client role.
C3_RunScoped ==
  /\ waited \subseteq CurrentClients
  /\ \A i \in 1..Len(pods) : pods[i] \in CurrentClients
  /\ lastCmd # NoCmd => lastCmd.pod \in CurrentClients
  /\ impaired \subseteq CurrentClients

C3_Witness ==
  /\ ClientPod(PriorRunId, 1) \in present
  /\ lastCmd # NoCmd
  /\ lastCmd.ok

C4_Step ==
  (pc = "net" /\ profile = "NET0") =>
    /\ pc' = "wait_completion"
    /\ present' = present
    /\ netCalls' = netCalls
    /\ waited' = waited
    /\ impaired' = impaired
    /\ lastCmd' = lastCmd

C4_NoCalls ==
  profile = "NET0" =>
    /\ netCalls = {}
    /\ waited = {}
    /\ pods = <<>>
    /\ lastCmd = NoCmd
    /\ impaired = {}
    /\ ~Has("network_profile_wait_ready")

\* C4: with the baseline profile NET0 apply_network_profile waits for no pod,
\* issues no external command, returns to main and leaves the cluster as it was.
C4_BaselineNoOp == [][C4_Step]_vars /\ []C4_NoCalls

C4_Witness ==
  /\ profile = "NET0"
  /\ Has("network_profile_skip")
  /\ pc = "wc_poll"

\* The lifecycle state the events printed so far stand for.
LifecycleState ==
  IF Has("wait_completion_success") THEN "Completed"
  ELSE IF Has("wait_completion_timeout") THEN "TimedOut"
  ELSE IF \/ Has("wait_completion_failed") \/ Has("experiment_failed")
          \/ Has("experiment_error") \/ Has("manifest_not_found")
       THEN "Failed"
  ELSE IF Has("network_profile_skip") \/ Has("network_profile_apply_complete")
       THEN "NetworkImpaired"
  ELSE IF Has("wait_server_ready") THEN "ServerReady"
  ELSE IF Has("manifest_applied") THEN "ManifestApplied"
  ELSE "Pending"

TerminalStates == {"Completed", "Failed", "TimedOut"}

\* Positions of main at which a lifecycle phase is still to run or running.
PhasePcs == {"start", "inject", "apply", "wait_server", "net", "net_get",
             "net_apply", "wait_completion", "wc_poll"}

NetStepDone ==
  IF Has("network_profile_skip") THEN "network_profile_skip"
  ELSE "network_profile_apply_complete"

C5_Order ==
  /\ LifecycleState = "Completed" =>
       /\ Before("manifest_applied", "wait_server_ready")
       /\ Before("wait_server_ready", NetStepDone)
       /\ Before(NetStepDone, "wait_completion_start")
       /\ Before("wait_completion_start", "wait_completion_success")
  /\ (netCalls # {} \/ pc \in {"net", "net_get", "net_apply"}
      \/ Has("network_profile_skip") \/ Has("network_profile_wait_ready")) =>
       Has("wait_server_ready")
  /\ Has("network_profile_wait_ready") =>
       Before("wait_server_ready", "network_profile_wait_ready")
  /\ (pc = "wc_poll" \/ Has("wait_completion_start")) => Has(NetStepDone)
  /\ Has("wait_completion_start") =>
       Before(NetStepDone, "wait_completion_start")
  /\ LifecycleState \in TerminalStates => pc \notin PhasePcs

C5_Step ==
  LifecycleState \in TerminalStates =>
    /\ LifecycleState' = LifecycleState
    /\ netCalls' = netCalls
    /\ lastCmd' = lastCmd

C6_FailurePhaseAlwaysFails ==
  (/\ pc \in {"wc_poll", "wc_return"}
   /\ obs.found /\ (obs.marker \/ obs.queried)
   /\ obs.phase \in {"Failed", "Error", "Unknown"})
    => verdict = "phase_failed"

\* C6 amended: a poll that resolves the server pod, does not find the marker
\* in its log and whose phase query succeeds with Failed, Error or Unknown
\* makes the detector return failure at that poll, before the timeout.
C6_ObservedFailurePhaseFails ==
  (/\ pc \in {"wc_poll", "wc_return"}
   /\ obs.found /\ ~obs.marker /\ obs.queried
   /\ obs.phase \in {"Failed", "Error", "Unknown"})
    => /\ pc = "wc_return"
       /\ verdict = "phase_failed"
       /\ events[Len(events)] = "wait_completion_failed"
       /\ elapsed < timeout

C6_Witness ==
  /\ pc = "wc_return"
  /\ verdict = "phase_failed"
  /\ obs.phase = "Unknown"
  /\ elapsed + CompletionPollSleep < timeout

\* C7: a wait that ends by the timeout, with neither marker nor failure phase
\* seen at its last poll, is logged as wait_completion_timeout and never as
\* wait_completion_failed, a failed phase the other way round; both runs then
\* log experiment_failed, are cleaned up and exit 1.
C7_TimedOutDistinct ==
  /\ verdict = "timeout" =>
       /\ Has("wait_completion_timeout")
       /\ ~Has("wait_completion_failed")
       /\ ~Has("wait_completion_success")
  /\ verdict = "phase_failed" =>
       /\ Has("wait_completion_failed")
       /\ ~Has("wait_completion_timeout")
       /\ ~Has("wait_completion_success")
  /\ (pc = "wc_return" /\ verdict = "timeout") =>
       /\ elapsed >= timeout
       /\ PollOutcome(obs) \in {"not_found", "again"}
  /\ (pc = "done" /\ verdict \in {"timeout", "phase_failed"}) =>
       /\ exitCode = 1
       /\ Has("experiment_failed")
       /\ Before("cleanup_start", "cleanup_end")

C7_Witness ==
  /\ pc = "done"
  /\ verdict = "timeout"
  /\ exitCode = 1
  /\ Has("cleanup_end")

\* C8 as stated: every impaired profile gets a strictly longer completion
\* timeout than the baseline NET0.
C8_ImpairedLonger ==
  (timeout # 0 /\ ~(profile = "NET0")) => timeout > CompletionTimeout("NET0")

\* C8 amended: the completion timeout is 7200 s for NET2, strictly longer
\* than the baseline's 3600 s, and 3600 s, the baseline's, for every other
\* profile.
C8_OnlyNet2Longer ==
  timeout # 0 =>
    /\ profile = "NET2" => timeout = 7200
    /\ ~(profile = "NET2") => timeout = 3600

C8_Witness ==
  /\ profile = "NET2"
  /\ timeout = 7200
  /\ pc = "wc_poll"

\* C9 as stated: every exit after the manifest was applied runs the teardown
\* last, and cleanup returns only when no pod of the run remains or its
\* bounded wait has expired.
C9_TeardownWaits ==
  /\ (pc = "done" /\ Has("manifest_applied")) =>
       /\ Before("cleanup_start", "cleanup_end")
       /\ \A i \in 1..Len(events) :
            i > Pos("cleanup_end") => events[i] = "experiment_success"
  /\ (pc = "cleanup_done" /\ Has("manifest_applied")) =>
       \/ Select(present, RunSelector(RunId)) = {}
       \/ elapsed >= CleanupMaxWait

DebugEvents == {"debug_collected", "debug_collection_failed", "debug_skipped"}

PhaseFailure ==
  \/ Has("wait_server_timeout")
  \/ Has("network_profile_failed")
  \/ Has("network_profile_apply_failed")
  \/ verdict \in {"phase_failed", "timeout"}

\* C10 as stated: after a phase-level failure (server not ready, impairment
\* failure, completion failure or timeout) the diagnostic capture is tried
\* before the teardown starts, and the process exits non-zero after both.
C10_DebugBeforeTeardown ==
  /\ (PhaseFailure /\ Has("cleanup_start")) =>
       \E i \in 1..Len(events) :
         events[i] \in DebugEvents /\ i < Pos("cleanup_start")
  /\ (PhaseFailure /\ pc = "done") => (exitCode = 1 /\ Has("cleanup_end"))

\* C11 as stated: once the run is Completed, Failed or TimedOut, the logs
\* have been collected into the directory named by the run id and the
\* metadata record has been saved before the teardown starts.
C11_ArtifactsBeforeTeardown ==
  (LifecycleState \in TerminalStates /\ Has("cleanup_start")) =>
    /\ Before("logs_collect_end", "cleanup_start")
    /\ logDir = "run_dir"
    /\ Before("metadata_saved", "cleanup_start")

\* C13 as stated: when the process has exited, the temp manifest does not
\* exist.
C13_NoTempFileAtExit == pc = "done" => ~tempFile

\* C13 amended: every exit path tries to remove the temp manifest; at exit
\* the file exists only if that last removal raised (the error is
\* swallowed), and it never exists after a missing template.
C13_RemovedUnlessUnlinkRaised ==
  /\ pc = "done" => (tempFile => unlinkErr)
  /\ (pc = "done" /\ Has("manifest_not_found")) => ~tempFile
  /\ pc \in {"start", "inject"} => ~tempFile

C13_Witness ==
  /\ pc = "done"
  /\ Has("manifest_prepared")
  /\ Has("experiment_error")
  /\ ~tempFile
  /\ ~unlinkErr

\* An event of a failed phase or of the exception handler was printed.
FailureSeen ==
  \/ Has("manifest_not_found")
  \/ Has("wait_server_timeout")
  \/ Has("network_profile_failed")
  \/ Has("network_profile_apply_failed")
  \/ verdict \in {"phase_failed", "timeout"}
  \/ Has("experiment_error")

\* C14: the process exits 0 exactly when the run is Completed and no
\* exception was raised, then with logs collected, metadata saved and the
\* teardown finished, experiment_success printed last; it exits 1 after a
\* missing template, a server wait timeout, an impairment failure, a failed
\* or timed-out completion wait, or any exception.
C14_ExitStatus ==
  /\ pc # "done" => exitCode = -1
  /\ pc = "done" =>
       /\ exitCode \in {0, 1}
       /\ exitCode = 0 <=>
            (LifecycleState = "Completed" /\ ~Has("experiment_error"))
       /\ exitCode = 0 =>
            /\ Before("logs_collect_end", "metadata_saved")
            /\ Before("metadata_saved", "cleanup_start")
            /\ Before("cleanup_start", "cleanup_end")
            /\ events[Len(events)] = "experiment_success"
       /\ FailureSeen => exitCode = 1

C14_Witness ==
  /\ pc = "done"
  /\ LifecycleState = "Completed"
  /\ Has("logs_collect_end")
  /\ Has("experiment_error")
  /\ exitCode = 1

\* ------------------------------------------------- the run identifier
\* Strings whose characters matter are sequences of one-character strings.

\* Invocations of run_one.py looked at together.
MaxRuns == 2

\* Seconds the clock advances while they are made.
MaxTicks == 1

UpperCase == <<"A", "B", "C", "D", "E", "F", "G", "H", "I", "J", "K", "L", "M",
               "N", "O", "P", "Q", "R", "S", "T", "U", "V", "W", "X", "Y", "Z">>
LowerCase == <<"a", "b", "c", "d", "e", "f", "g", "h", "i", "j", "k", "l", "m",
               "n", "o", "p", "q", "r", "s", "t", "u", "v", "w", "x", "y", "z">>
DigitChars == <<"0", "1", "2", "3", "4", "5", "6", "7", "8", "9">>

Range(f) == {f[k] : k \in DOMAIN f}

\* The character classes [a-z] and [a-z0-9\-] of test_dns.py's pattern.
LowerSet == Range(LowerCase)
AlnumSet == Range(LowerCase) \cup Range(DigitChars)
LabelSet == AlnumSet \cup {"-"}

\* choices=["SEC0", "SEC1", "SEC2", "SEC3"]
SecLevels == {<<"S", "E", "C", d>> : d \in {"0", "1", "2", "3"}}

\* choices=["NET0", "NET1", "NET2", "NET3", "NET4", "NET5"]
NetProfiles == {<<"N", "E", "T", d>> : d \in {"0", "1", "2", "3", "4", "5"}}

\* Values of int(time.time()) at the first state: a present-day epoch
\* second, one before a carry through every digit but the first two.
Epochs == {1699999999}

\* str.lower()
Lower(c) ==
  IF \E k \in DOMAIN UpperCase : UpperCase[k] = c
  THEN LowerCase[CHOOSE k \in DOMAIN UpperCase : UpperCase[k] = c]
  ELSE c
StrLower(str) == [k \in DOMAIN str |-> Lower(str[k])]

\* The decimal digits an f-string prints for a non-negative int.
RECURSIVE Str(_)
Str(n) ==
  IF n < 10 THEN <<DigitChars[n + 1]>>
  ELSE Str(n \div 10) \o <<DigitChars[(n % 10) + 1]>>

\* The format test_dns.py calls old: f"{sec_level}_{net_profile}_{int(...)}".
RunIdOld(sec, net, t) == sec \o <<"_">> \o net \o <<"_">> \o Str(t)

\* run_id = f"{args.sec_level.lower()}-{args.net_profile.lower()}-{int(time.time())}"
RunIdOf(sec, net, t) ==
  StrLower(sec) \o <<"-">> \o StrLower(net) \o <<"-">> \o Str(t)

\* f'fl-server-{run_id}' and f'fl-client-{n}-{run_id}'
ServerName(id) == <<"f", "l", "-", "s", "e", "r", "v", "e", "r", "-">> \o id
ClientName(n, id) ==
  <<"f", "l", "-", "c", "l", "i", "e", "n", "t", "-">> \o Str(n) \o <<"-">> \o id

\* re.match(r'^[a-z]([a-z0-9\-]*[a-z0-9])?$', name)
DnsCompliant(name) ==
  /\ Len(name) >= 1
  /\ name[1] \in LowerSet
  /\ \A k \in 2..Len(name) : name[k] \in LabelSet
  /\ Len(name) >= 2 => name[Len(name)] \in AlnumSet

IdInit ==
  /\ clock \in Epochs
  /\ ticks = 0
  /\ issued = <<>>
  /\ RunIdle
  /\ MatrixIdle
  /\ ParseIdle

\* A second passes.
Tick ==
  /\ ticks < MaxTicks
  /\ clock' = clock + 1
  /\ ticks' = ticks + 1
  /\ UNCHANGED issued
  /\ UNCHANGED <<runVars, matrixVars, parseVars>>

\* One invocation of run_one.py computes its run_id from its arguments and
\* the clock.
Invoke ==
  /\ Len(issued) < MaxRuns
  /\ \E sec \in SecLevels, net \in NetProfiles :
       issued' = Append(issued, [sec_level |-> sec, net_profile |-> net,
                                 run_id |-> RunIdOf(sec, net, clock)])
  /\ UNCHANGED <<clock, ticks>>
  /\ UNCHANGED <<runVars, matrixVars, parseVars>>

IdNext == Tick \/ Invoke

IdSpec == IdInit /\ [][IdNext]_vars

\* Lowercase alphanumerics and hyphens only, alphanumeric at both ends.
NameValid(name) ==
  /\ Len(name) >= 1
  /\ \A k \in 1..Len(name) : name[k] \in LabelSet
  /\ name[1] \in AlnumSet
  /\ name[Len(name)] \in AlnumSet

\* C15: every generated run id, and the server and client resource names
\* built from it, consist of lowercase alphanumerics and hyphens only and
\* begin and end with an alphanumeric character (they match the pattern
\* test_dns.py tests them with).
C15_NamesValid ==
  \A k \in 1..Len(issued) :
    LET id == issued[k].run_id IN
    /\ NameValid(id) /\ DnsCompliant(id)
    /\ NameValid(ServerName(id)) /\ DnsCompliant(ServerName(id))
    /\ \A n \in 1..NumClients :
         NameValid(ClientName(n, id)) /\ DnsCompliant(ClientName(n, id))

C15_Witness ==
  /\ Len(issued) = 2
  /\ issued[1].run_id = <<"s", "e", "c", "3", "-", "n", "e", "t", "5", "-",
                          "1", "6", "9", "9", "9", "9", "9", "9", "9", "9">>
  /\ issued[2].run_id = <<"s", "e", "c", "0", "-", "n", "e", "t", "0", "-",
                          "1", "7", "0", "0", "0", "0", "0", "0", "0", "0">>

\* C16 as stated: any two invocations are given different run ids.
C16_GloballyUnique ==
  \A a, b \in 1..Len(issued) : a # b => issued[a].run_id # issued[b].run_id

\* ------------------------------------------------- the campaign driver
\* scripts/run_matrix_fixed.py: main() builds the list of configurations and
\* runs run_one.py for each of them in a blocking subprocess.

\* Largest --resume-from tried.
MaxResume == 3

\* Runs of one campaign that fail.
MaxFailures == 2

\* WORKLOADS.keys(), in insertion order
WORKLOADS == <<"mnist", "cifar10">>
DATA_DISTRIBUTIONS == <<"iid", "noniid">>
NUM_CLIENTS_LIST == <<5, 10>>
NETWORK_PROFILES == <<"NET0", "NET2", "NET4">>
SECURITY_CONFIGS == <<"SEC0", "SEC1", "SEC2", "SEC3">>
SEEDS == <<0, 1, 2, 3, 4>>

\* choices=["core", "extended", "full"]
Tiers == {"core", "extended", "full"}

\* list(itertools.product(*dims)): every combination, the rightmost
\* dimension varying fastest.
RECURSIVE Product(_)
Product(dims) ==
  IF Len(dims) = 0 THEN << <<>> >>
  ELSE LET first == Head(dims)
           rest == Product(Tail(dims))
       IN [k \in 1..(Len(first) * Len(rest)) |->
             <<first[((k - 1) \div Len(rest)) + 1]>>
               \o rest[((k - 1) % Len(rest)) + 1]]

generate_experiment_list(t) ==
  IF t = "core"
  THEN Product(<< <<"mnist">>, DATA_DISTRIBUTIONS, <<5>>, <<"NET0", "NET2">>,
                  SECURITY_CONFIGS, SEEDS >>)
  ELSE IF t = "extended"
  THEN Product(<< <<"mnist">>, DATA_DISTRIBUTIONS, NUM_CLIENTS_LIST,
                  NETWORK_PROFILES, SECURITY_CONFIGS, SEEDS >>)
  ELSE Product(<< WORKLOADS, DATA_DISTRIBUTIONS, NUM_CLIENTS_LIST,
                  NETWORK_PROFILES, SECURITY_CONFIGS, SEEDS >>)

MatrixInit ==
  /\ tier \in Tiers
  /\ dry_run \in BOOLEAN
  /\ resume_from \in 0..MaxResume
  /\ configs = <<>>
  /\ expIdx = 0
  /\ success_count = 0
  /\ fail_count = 0
  /\ mpc = "start"
  /\ executed = <<>>
  /\ active = {}
  /\ namespace = "present"
  /\ status = -1
  /\ launched = NotLaunched
  /\ last_run = NoRun
  /\ faults = 0
  /\ RunIdle
  /\ IdIdle
  /\ ParseIdle

\* main up to the loop: build the list; a dry run prints it and exits 0; a
\* cluster that is not ready (kubectl get nodes failed) exits 1.
MatrixMain ==
  /\ mpc = "start"
  /\ configs' = generate_experiment_list(tier)
  /\ IF dry_run
     THEN /\ status' = 0
          /\ mpc' = "exited"
     ELSE \E ready \in BOOLEAN :
            IF ready
            THEN /\ mpc' = "loop"
                 /\ UNCHANGED status
            ELSE /\ status' = 1
                 /\ mpc' = "exited"
  /\ UNCHANGED <<tier, dry_run, resume_from, expIdx, success_count, fail_count,
                 executed, active, namespace, launched>>
  /\ UNCHANGED <<last_run, faults>>
  /\ UNCHANGED <<runVars, idVars, parseVars>>

\* if i < args.resume_from: continue
SkipConfig ==
  /\ mpc = "loop"
  /\ expIdx < Len(configs)
  /\ expIdx < resume_from
  /\ expIdx' = expIdx + 1
  /\ UNCHANGED <<tier, dry_run, resume_from, configs, success_count, fail_count,
                 mpc, executed, active, namespace, status, launched>>
  /\ UNCHANGED <<last_run, faults>>
  /\ UNCHANGED <<runVars, idVars, parseVars>>

\* The loop body enters run_single_experiment, whose first step is
\* cleanup_namespace: kubectl delete namespace fl-experiment (return code
\* ignored) and the wait for its termination.
CleanupNamespace ==
  /\ mpc = "loop"
  /\ expIdx < Len(configs)
  /\ ~(expIdx < resume_from)
  /\ \E ok \in BOOLEAN : namespace' = IF ok THEN "absent" ELSE namespace
  /\ mpc' = "create"
  /\ UNCHANGED <<tier, dry_run, resume_from, configs, expIdx, success_count,
                 fail_count, executed, active, status, launched>>
  /\ UNCHANGED <<last_run, faults>>
  /\ UNCHANGED <<runVars, idVars, parseVars>>

\* A driver that starts run_one.py and returns to its loop.
AfterLaunchDetached == "loop"

\* subprocess.run(cmd) returns only when run_one.py has exited.
AfterLaunch == "waiting"

\* if data_dist == "iid": cmd.append("--iid")
CmdIid(data_dist) == data_dist = "iid"

\* run_one.py's parser.add_argument("--iid", action="store_true",
\* default=True): the value of args.iid for a command line with or without
\* the flag.
ArgIidDefault == TRUE
ParseIid(flag) == IF flag THEN TRUE ELSE ArgIidDefault

\* inject_run_id: the client arguments of the manifest get "--iid" when
\* is_iid is given and true.
InjectIid(is_iid) == is_iid

\* The rest of cleanup_namespace (kubectl create namespace, return code
\* ignored), reset_network, and the start of run_one.py for config i with
\* the command line built from the configuration.
LaunchRunOne ==
  /\ mpc = "create"
  /\ \E ok \in BOOLEAN : namespace' = IF ok THEN "present" ELSE namespace
  /\ executed' = Append(executed, expIdx)
  /\ active' = active \cup {expIdx}
  /\ launched' = [data_dist |-> configs[expIdx + 1][2],
                  cmd_iid |-> CmdIid(configs[expIdx + 1][2]),
                  applied |-> FALSE, client_iid |-> FALSE]
  /\ mpc' = AfterLaunch
  /\ UNCHANGED <<tier, dry_run, resume_from, configs, expIdx, success_count,
                 fail_count, status>>
  /\ UNCHANGED <<last_run, faults>>
  /\ UNCHANGED <<runVars, idVars, parseVars>>

\* A loop that leaves on the first failed run.
NextIndexBreak(success, k, n) == IF success THEN k + 1 ELSE n

\* Where the for loop goes after a run: to the next configuration, whether
\* the run succeeded or not.
NextIndex(success, k, n) == k + 1

\* run_one.py runs and exits: unless it stopped before the deployment
\* (exit 1), it has injected its arguments into the manifest and applied it.
\* run_single_experiment returns returncode == 0 and main counts the run.
RunOneReturns ==
  /\ mpc = "waiting"
  /\ \E returncode \in {0, 1}, deployed \in BOOLEAN :
       LET success == returncode = 0 IN
       /\ ~success => fail_count < MaxFailures
       /\ success => deployed
       /\ launched' =
            [launched EXCEPT
               !.applied = deployed,
               !.client_iid = deployed /\ InjectIid(ParseIid(launched.cmd_iid))]
       /\ success_count' = IF success THEN success_count + 1 ELSE success_count
       /\ fail_count' = IF success THEN fail_count ELSE fail_count + 1
       /\ expIdx' = NextIndex(success, expIdx, Len(configs))
  /\ active' = active \ {expIdx}
  /\ mpc' = "loop"
  /\ UNCHANGED <<tier, dry_run, resume_from, configs, executed, namespace,
                 status>>
  /\ UNCHANGED <<last_run, faults>>
  /\ UNCHANGED <<runVars, idVars, parseVars>>

\* The loop is over: main prints the tally and returns.
Tally ==
  /\ mpc = "loop"
  /\ ~(expIdx < Len(configs))
  /\ status' = 0
  /\ mpc' = "exited"
  /\ UNCHANGED <<tier, dry_run, resume_from, configs, expIdx, success_count,
                 fail_count, executed, active, namespace, launched>>
  /\ UNCHANGED <<last_run, faults>>
  /\ UNCHANGED <<runVars, idVars, parseVars>>

MatrixNext ==
  \/ MatrixMain \/ SkipConfig \/ CleanupNamespace \/ LaunchRunOne
  \/ RunOneReturns \/ Tally

MatrixSpec == MatrixInit /\ [][MatrixNext]_vars

\* C12 as stated: no step of the campaign removes the namespace.
C12_NamespacePersists ==
  [][namespace = "present" => namespace' = "present"]_vars

\* Configurations left to run from the resume index on.
Remaining == IF Len(configs) > resume_from THEN Len(configs) - resume_from ELSE 0

C17_Order ==
  /\ \A j \in 1..Len(executed) :
       /\ executed[j] = resume_from + j - 1
       /\ executed[j] < Len(configs)
  /\ Cardinality(active) <= 1
  /\ (active # {}) <=> (mpc = "waiting")
  /\ mpc = "waiting" => active = {executed[Len(executed)]}
  /\ (mpc = "exited" /\ status = 0 /\ ~dry_run) => Len(executed) = Remaining
  /\ dry_run => executed = <<>>

C17_Step == (executed' # executed) => (active = {} /\ active' = {expIdx})

\* C17: with resume index k and n configurations the driver starts run_one.py
\* for configurations k..n-1 and no other, in list order, each once; a run
\* starts only when no earlier run is still active.
C17_ResumeSequential == []C17_Order /\ [][C17_Step]_vars

C17_Witness ==
  /\ mpc = "exited"
  /\ tier = "core"
  /\ resume_from = 3
  /\ Len(executed) = 77
  /\ executed[1] = 3
  /\ executed[77] = 79

C18_Counts ==
  /\ success_count + fail_count = Len(executed) - Cardinality(active)
  /\ (mpc = "exited" /\ fail_count > 0) =>
       /\ status = 0
       /\ Len(executed) = Remaining
       /\ success_count + fail_count = Remaining

C18_Step ==
  (fail_count' # fail_count) =>
    /\ fail_count' = fail_count + 1
    /\ success_count' = success_count
    /\ mpc' = "loop"
    /\ expIdx' = expIdx + 1

\* C18: a failed run is counted in fail_count and the loop goes on to the
\* next configuration; the driver still runs every remaining configuration
\* and exits with status 0 however many runs failed.
C18_FailureNotFatal == []C18_Counts /\ [][C18_Step]_vars

C18_Witness ==
  /\ mpc = "exited"
  /\ status = 0
  /\ fail_count = 2
  /\ success_count > 0
  /\ executed[Len(executed)] = Len(configs) - 1

\* The sizes the claim gives.
ClaimedSize(t) ==
  IF t = "core" THEN 80 ELSE IF t = "extended" THEN 320 ELSE 480

\* C19 as stated: the list holds every combination once and has 80 entries
\* for core, 320 for extended, 480 for full.
C19_CrossProductSizes ==
  (mpc = "loop" /\ expIdx = 0) =>
    /\ Len(configs) = ClaimedSize(tier)
    /\ \A a, b \in 1..Len(configs) : a # b => configs[a] # configs[b]

\* ------------------------------------------------- the event log parser
\* scripts/parse_logs.py, parse_server_log: one pass over the lines of the
\* server log, then the durations.  A round record is the dict the code
\* builds: closed stands for "end_ts" in r.

\* Lines of one log.
MaxLines == 3

\* Round numbers 1..MaxRound.
MaxRound == 2

\* Timestamps 1..MaxTs, in seconds.
MaxTs == 2

\* The value of a timestamp that is missing from the entry or that
\* datetime.fromisoformat cannot read.
BadTs == 0

\* A line whose JSON document is no object (a number, a string, null).
NotObject == [event |-> "not_object", round |-> 0, timestamp |-> 0]

\* An object with an event the round bookkeeping does not look at.
OtherEvent == [event |-> "experiment_end", round |-> 0, timestamp |-> 0]

\* The defaults of entry.get("test_accuracy", 0) and
\* entry.get("num_failures", 0): what the parser reads from a round_end
\* line that carries neither key.
NoAccuracy == 0
NoFailures == 0

\* The lines of a log whose round_end lines carry no accuracy and no
\* failure count.
LogLines ==
  [event : {"round_start", "round_end"}, round : 1..MaxRound,
   timestamp : {BadTs} \cup 1..MaxTs,
   test_accuracy : {NoAccuracy}, num_failures : {NoFailures}]
    \cup {NotJson, NotObject, OtherEvent}

\* rounds.append({"round_id": ..., "start_ts": ...})
\* The keys end_ts, accuracy, failures and duration are not set: closed is
\* FALSE and the optional values are <<>>.
OpenRound(e) ==
  [round_id |-> e.round, start_ts |-> e.timestamp, closed |-> FALSE,
   end_ts |-> BadTs, accuracy |-> <<>>, failures |-> <<>>, duration |-> <<>>]

\* A matching loop that forgets to test for an end already recorded.
CloseRoundAgain(rs, e) ==
  IF \E k \in 1..Len(rs) : rs[k].round_id = e.round
  THEN LET k == CHOOSE x \in 1..Len(rs) :
                  /\ rs[x].round_id = e.round
                  /\ \A y \in 1..(x - 1) : rs[y].round_id # e.round
       IN [rs EXCEPT ![k] = [@ EXCEPT !.closed = TRUE,
                                      !.end_ts = e.timestamp,
                                      !.accuracy = <<e.test_accuracy>>,
                                      !.failures = <<e.num_failures>>]]
  ELSE rs

\* The round_end branch: the first record with that round_id and no end_ts
\* gets its end, accuracy and failure count (the loss, which nothing reads,
\* is left out); without such a record nothing happens.
CloseRound(rs, e) ==
  IF \E k \in 1..Len(rs) : rs[k].round_id = e.round /\ ~rs[k].closed
  THEN LET k == CHOOSE x \in 1..Len(rs) :
                  /\ rs[x].round_id = e.round /\ ~rs[x].closed
                  /\ \A y \in 1..(x - 1) :
                       ~(rs[y].round_id = e.round /\ ~rs[y].closed)
       IN [rs EXCEPT ![k] = [@ EXCEPT !.closed = TRUE,
                                      !.end_ts = e.timestamp,
                                      !.accuracy = <<e.test_accuracy>>,
                                      !.failures = <<e.num_failures>>]]
  ELSE rs

\* A duration loop without the try/except around the two conversions.
WithDurationUnguarded(r) ==
  IF r.closed
  THEN [r EXCEPT !.duration = <<r.end_ts - r.start_ts>>]
  ELSE r

\* The duration loop: end - start for a record with both ends, None when a
\* timestamp cannot be read; a record without end_ts gets no duration.
WithDuration(r) ==
  IF r.closed /\ r.start_ts # BadTs /\ r.end_ts # BadTs
  THEN [r EXCEPT !.duration = <<r.end_ts - r.start_ts>>]
  ELSE r

ParseInit ==
  /\ rounds = <<>>
  /\ entry = NotJson
  /\ lineNo = 0
  /\ ppc = "reading"
  /\ columns = {}
  /\ summary = <<>>
  /\ ServerIdle
  /\ RunIdle
  /\ MatrixIdle
  /\ IdIdle

\* One iteration of `for line in f`: json.loads (a line that is no JSON is
\* skipped), entry.get("event") (raises on a document that is no object),
\* and the branch on the event.
ReadLine ==
  /\ ppc = "reading"
  /\ lineNo < MaxLines
  /\ \E e \in LogLines :
       /\ entry' = e
       /\ IF e = NotObject
          THEN /\ ppc' = "raised"
               /\ UNCHANGED rounds
          ELSE /\ ppc' = "reading"
               /\ rounds' = IF e.event = "round_start"
                            THEN Append(rounds, OpenRound(e))
                            ELSE IF e.event = "round_end"
                            THEN CloseRound(rounds, e)
                            ELSE rounds
  /\ lineNo' = lineNo + 1
  /\ UNCHANGED <<columns, summary, serverVars>>
  /\ UNCHANGED <<runVars, matrixVars, idVars>>

\* The end of the file: the durations are computed and the result returned.
EndOfFile ==
  /\ ppc = "reading"
  /\ rounds' = [k \in 1..Len(rounds) |-> WithDuration(rounds[k])]
  /\ ppc' = "returned"
  /\ UNCHANGED <<entry, lineNo, columns, summary, serverVars>>
  /\ UNCHANGED <<runVars, matrixVars, idVars>>

\* parse_run's thresholds 0.95 and 0.97; accuracies are counted in
\* hundredths.
Target95 == 95
Target97 == 97

\* compute_tta's loop from record k on: the first record with an accuracy of
\* at least target and an end_ts gives its end minus the start of rounds[0];
\* when one of the two timestamps cannot be read the except clause goes on
\* with the next record.  <<>> is None.
RECURSIVE TtaFrom(_, _, _)
TtaFrom(rs, target, k) ==
  IF k > Len(rs) THEN <<>>
  ELSE LET r == rs[k]
           acc == IF r.accuracy = <<>> THEN NoAccuracy ELSE r.accuracy[1]
       IN IF acc >= target /\ r.closed /\ r.end_ts # BadTs
                /\ rs[1].start_ts # BadTs
          THEN <<r.end_ts - rs[1].start_ts>>
          ELSE TtaFrom(rs, target, k + 1)

\* A time-to-accuracy measured from the start of the round that reaches the
\* target.
RECURSIVE compute_tta_round(_, _)
compute_tta_round(rs, target) ==
  IF rs = <<>> THEN <<>>
  ELSE LET r == Head(rs)
           acc == IF r.accuracy = <<>> THEN NoAccuracy ELSE r.accuracy[1]
       IN IF acc >= target /\ r.closed /\ r.end_ts # BadTs
                /\ r.start_ts # BadTs
          THEN <<r.end_ts - r.start_ts>>
          ELSE compute_tta_round(Tail(rs), target)

compute_tta(rs, target) == TtaFrom(rs, target, 1)

\* pd.DataFrame(rounds) and the run_id column: one column per key that some
\* record has.  A record has end_ts, accuracy, loss, failures and duration
\* only when a round_end closed it.
Columns(rs) ==
  {"round_id", "start_ts", "run_id"} \cup
    (IF \E k \in 1..Len(rs) : rs[k].closed
     THEN {"end_ts", "accuracy", "loss", "failures", "duration"}
     ELSE {})

\* rounds_df["failures"].sum(): the counts of the records that have one.
RECURSIVE FailureSum(_)
FailureSum(rs) ==
  IF rs = <<>> THEN 0
  ELSE (IF Head(rs).failures = <<>> THEN 0 ELSE Head(rs).failures[1])
         + FailureSum(Tail(rs))

\* accuracies.iloc[-1] of the non-null accuracies, None without any.
RECURSIVE FinalAccuracy(_)
FinalAccuracy(rs) ==
  IF rs = <<>> THEN <<>>
  ELSE IF rs[Len(rs)].accuracy # <<>> THEN rs[Len(rs)].accuracy
  ELSE FinalAccuracy(SubSeq(rs, 1, Len(rs) - 1))

\* The summary of a frame with all its columns; the failure rate is the
\* quotient num / den.
SummaryOf(rs) ==
  [num_rounds |-> Len(rs),
   final_accuracy |-> FinalAccuracy(rs),
   tta_95 |-> compute_tta(rs, Target95),
   tta_97 |-> compute_tta(rs, Target97),
   failure_rate |-> [num |-> FailureSum(rs), den |-> Len(rs)]]

\* parse_run after parse_server_log has returned: the frame of the rounds
\* (None for an empty list) and the summary.  Without a frame the summary
\* stays empty; a frame without the duration, accuracy or failures column
\* raises KeyError at the first of them that is read.  (The client logs
\* parse_run also reads do not enter the summary.)
Summarize ==
  /\ ppc = "returned"
  /\ columns' = IF rounds # <<>> THEN Columns(rounds) ELSE {}
  /\ IF rounds = <<>>
     THEN /\ summary' = <<>>
          /\ ppc' = "summarized"
     ELSE IF {"duration", "accuracy", "failures"} \subseteq Columns(rounds)
     THEN /\ summary' = <<SummaryOf(rounds)>>
          /\ ppc' = "summarized"
     ELSE /\ summary' = <<>>
          /\ ppc' = "key_error"
  /\ UNCHANGED <<rounds, entry, lineNo, serverVars>>
  /\ UNCHANGED <<runVars, matrixVars, idVars>>

ParseNext == ReadLine \/ EndOfFile \/ Summarize

ParseSpec == ParseInit /\ [][ParseNext]_vars

\* No record for the event's round number is open.
Orphan(e, rs) ==
  /\ e.event = "round_end"
  /\ \A k \in 1..Len(rs) : rs[k].round_id # e.round \/ rs[k].closed

C20_Step ==
  (lineNo' = lineNo + 1 /\ Orphan(entry', rounds)) =>
    /\ rounds' = rounds
    /\ ppc' = "reading"

\* C20: reading a round_end whose round number has no open record (never
\* started, or already closed) creates no record, changes none, and the
\* parser goes on reading without raising.
C20_OrphanEndIgnored == [][C20_Step]_vars

C20_Witness ==
  /\ ppc = "reading"
  /\ entry.event = "round_end"
  /\ Len(rounds) = 1
  /\ rounds[1].round_id = entry.round
  /\ rounds[1].closed
  /\ rounds[1].end_ts # entry.timestamp

Unknown == <<"u", "n", "k", "n", "o", "w", "n">>

\* str.split(sep) for a separator of one character.
RECURSIVE Split(_, _)
Split(str, sep) ==
  IF \A k \in 1..Len(str) : str[k] # sep
  THEN <<str>>
  ELSE LET k == CHOOSE x \in 1..Len(str) :
                  /\ str[x] = sep
                  /\ \A y \in 1..(x - 1) : str[y] # sep
       IN <<SubSeq(str, 1, k - 1)>> \o Split(SubSeq(str, k + 1, Len(str)), sep)

\* The security level and the network profile the parser takes from the
\* run_id of an experiment_start entry.
ExtractMeta(run_id) ==
  IF "_" \in Range(run_id)
  THEN LET parts == Split(run_id, "_")
       IN [sec_level |-> IF Len(parts) > 0 THEN parts[1] ELSE Unknown,
           net_profile |-> IF Len(parts) > 1 THEN parts[2] ELSE Unknown]
  ELSE [sec_level |-> Unknown, net_profile |-> Unknown]

\* C26 as stated: from every run id the orchestrator generates the parser
\* recovers the security level and the network profile of the run, never
\* "unknown".
C26_MetadataRecovered ==
  \A k \in 1..Len(issued) :
    LET meta == ExtractMeta(issued[k].run_id) IN
    /\ meta.sec_level # Unknown
    /\ meta.net_profile # Unknown
    /\ meta.sec_level \in {issued[k].sec_level, StrLower(issued[k].sec_level)}
    /\ meta.net_profile \in
         {issued[k].net_profile, StrLower(issued[k].net_profile)}

\* C27 as stated: the manifest the orchestrator applies for a configuration
\* starts the clients with the IID flag exactly when the configuration's
\* split mode is IID.
C27_SplitModeReachesRun ==
  launched.applied => (launched.client_iid <=> launched.data_dist = "iid")

\* ------------------------------------------------- the run summary
\* parse_run's summary as a function of the records parse_server_log
\* returns, for logs whose round_end lines carry accuracies and failure
\* counts.

\* Records of one run.
MaxRecords == 2

\* Largest num_failures of a round_end line.
MaxFailed == 2

\* Accuracies in hundredths: below both thresholds, at the lower, at the
\* higher.
Accuracies == {NoAccuracy, Target95, Target97}

Instants == {BadTs} \cup 1..MaxTs

StartLine(k, t) ==
  [event |-> "round_start", round |-> k, timestamp |-> t,
   test_accuracy |-> NoAccuracy, num_failures |-> NoFailures]
EndLine(k, t, a, f) ==
  [event |-> "round_end", round |-> k, timestamp |-> t,
   test_accuracy |-> a, num_failures |-> f]

\* The record parse_server_log returns for a round with a round_start line
\* only, and for one with a round_start and a round_end line.
OpenRecord(s) == WithDuration(OpenRound(StartLine(1, s)))
ClosedRecord(s, e, a, f) ==
  WithDuration(CloseRound(<<OpenRound(StartLine(1, s))>>, EndLine(1, e, a, f))[1])

\* Rounds with any timestamps and accuracies and no failures reported, and
\* rounds of one second with any failure count.
TimedRecords ==
  {OpenRecord(s) : s \in Instants}
    \cup {ClosedRecord(s, e, a, NoFailures) :
            s \in Instants, e \in Instants, a \in Accuracies}
FailedRecords ==
  {OpenRecord(1)} \cup {ClosedRecord(1, 2, NoAccuracy, f) : f \in 0..MaxFailed}

\* The record lists of logs whose k-th round has the round number k.
ListsOf(S) == UNION {[1..n -> S] : n \in 0..MaxRecords}
Renumber(rs) == [k \in DOMAIN rs |-> [rs[k] EXCEPT !.round_id = k]]
ParsedRounds ==
  {Renumber(rs) : rs \in ListsOf(TimedRecords) \cup ListsOf(FailedRecords)}

SummaryInit ==
  /\ rounds \in ParsedRounds
  /\ entry = NotJson
  /\ lineNo = 0
  /\ ppc = "returned"
  /\ columns = {}
  /\ summary = <<>>
  /\ ServerIdle
  /\ RunIdle
  /\ MatrixIdle
  /\ IdIdle

SummaryNext == Summarize

SummarySpec == SummaryInit /\ [][SummaryNext]_vars

\* C22 as stated: a log with rounds that never end is parsed without
\* raising, the open rounds keep a null duration and accuracy, and the run
\* summary is produced.
C22_OpenRoundsSummarized ==
  (ppc \in {"summarized", "key_error"}
     /\ \E k \in 1..Len(rounds) : ~rounds[k].closed) =>
    /\ ppc = "summarized"
    /\ summary # <<>>
    /\ \A k \in 1..Len(rounds) :
         ~rounds[k].closed =>
           rounds[k].duration = <<>> /\ rounds[k].accuracy = <<>>

\* The thresholds of the summary and the value it holds for each.
Thresholds == {Target95, Target97}
TtaAt(T) == IF T = Target95 THEN summary[1].tta_95 ELSE summary[1].tta_97

\* The records whose round ended with an accuracy of at least T.
Reaching(T) ==
  {k \in 1..Len(rounds) : rounds[k].closed /\ rounds[k].accuracy[1] >= T}

\* Those of them whose end timestamp can be read.
ReachingRead(T) == {k \in Reaching(T) : rounds[k].end_ts # BadTs}

First(S) == CHOOSE k \in S : \A j \in S : k <= j

C24_TtaMonotone ==
  (ppc = "summarized" /\ summary # <<>>) =>
    /\ summary[1].tta_97 # <<>> => summary[1].tta_95 # <<>>
    /\ (summary[1].tta_95 # <<>> /\ summary[1].tta_97 # <<>>) =>
         summary[1].tta_95[1] <= summary[1].tta_97[1]

\* C25 as stated: the failure rate of the run summary lies between 0 and 1.
C25_FailureRateInUnitInterval ==
  (ppc = "summarized" /\ summary # <<>>) =>
    /\ 0 <= summary[1].failure_rate.num
    /\ summary[1].failure_rate.num <= summary[1].failure_rate.den

\* ------------------------------------------------- the first campaign driver
\* scripts/run_matrix.py: main() runs every configuration itself, step by
\* step, and asks the operator after a failed run whether to go on.

\* Python's truth value of what apply_network_profile returns.
Truthy(v) == v = "True"

\* apply_network_profile: the baseline profile prints and returns without a
\* value; any other profile runs netem_apply.sh and returns False when it
\* fails, True otherwise.
apply_network_profile(net, ok) ==
  IF net = "NET0" THEN "None" ELSE IF ok THEN "True" ELSE "False"

\* apply_security_config: SEC1 and SEC3 apply manifest and policy and return
\* True whatever kubectl reports; SEC0 and SEC2 return whether kubectl apply
\* succeeded.
apply_security_config(sec, ok) ==
  IF sec \in {"SEC1", "SEC3"} THEN TRUE ELSE ok

LegacyInit ==
  /\ tier \in Tiers
  /\ dry_run \in BOOLEAN
  /\ resume_from \in 0..MaxResume
  /\ configs = <<>>
  /\ expIdx = 0
  /\ success_count = 0
  /\ fail_count = 0
  /\ mpc = "start"
  /\ executed = <<>>
  /\ active = {}
  /\ namespace = "present"
  /\ status = -1
  /\ launched = NotLaunched
  /\ last_run = NoRun
  /\ faults = 0
  /\ RunIdle
  /\ IdIdle
  /\ ParseIdle

\* main up to the loop: the list; a dry run prints it and exits 0; a cluster
\* that is not ready exits 1.
LegacyMain ==
  /\ mpc = "start"
  /\ configs' = generate_experiment_list(tier)
  /\ IF dry_run
     THEN /\ status' = 0
          /\ mpc' = "exited"
     ELSE \E ready \in BOOLEAN :
            IF ready
            THEN /\ mpc' = "loop"
                 /\ UNCHANGED status
            ELSE /\ status' = 1
                 /\ mpc' = "exited"
  /\ UNCHANGED <<tier, dry_run, resume_from, expIdx, success_count, fail_count,
                 executed, active, namespace, launched, last_run, faults>>
  /\ UNCHANGED <<runVars, idVars, parseVars>>

\* if i < args.resume_from: continue
LegacySkip ==
  /\ mpc = "loop"
  /\ expIdx < Len(configs)
  /\ expIdx < resume_from
  /\ expIdx' = expIdx + 1
  /\ UNCHANGED <<tier, dry_run, resume_from, configs, success_count, fail_count,
                 mpc, executed, active, namespace, status, launched, last_run,
                 faults>>
  /\ UNCHANGED <<runVars, idVars, parseVars>>

\* One call of run_single_experiment: metadata, cleanup_namespace and
\* reset_network (their return codes are ignored), then the network
\* profile, the security configuration, the wait for the pods and the wait
\* for the training, each of the first three ending the run with False when
\* its result is not true.  The training wait ends by the marker or by its
\* 1800 s running out (the while loop's else branch, which only prints);
\* either way the logs are collected and the function returns True.
RunSingleExperiment ==
  /\ mpc = "loop"
  /\ expIdx < Len(configs)
  /\ ~(expIdx < resume_from)
  /\ \E del \in BOOLEAN, mk \in BOOLEAN :
       namespace' = IF mk THEN "present" ELSE IF del THEN "absent" ELSE namespace
  /\ executed' = Append(executed, expIdx)
  /\ \E netem \in BOOLEAN, apply \in BOOLEAN, ready \in BOOLEAN,
        marker \in BOOLEAN :
       LET net == configs[expIdx + 1][4]
           sec == configs[expIdx + 1][5]
           network == apply_network_profile(net, netem)
           netStep == Truthy(network)
           secStep == apply_security_config(sec, apply)
           failed == (net # "NET0" /\ ~netem)
                       \/ (netStep /\ ~secStep)
                       \/ (netStep /\ secStep /\ ~ready)
       IN /\ failed => faults < MaxFailures
          /\ ~netStep => (apply /\ ready /\ marker)
          /\ (netStep /\ ~secStep) => (ready /\ marker)
          /\ (netStep /\ secStep /\ ~ready) => marker
          /\ faults' = IF failed THEN faults + 1 ELSE faults
          /\ last_run' =
               [net_profile |-> net,
                network |-> network,
                impaired |-> net # "NET0" /\ netem,
                reached |-> IF ~netStep THEN "network"
                            ELSE IF ~secStep THEN "security"
                            ELSE IF ~ready THEN "pods"
                            ELSE "training",
                expired |-> netStep /\ secStep /\ ready /\ ~marker,
                success |-> netStep /\ secStep /\ ready]
  /\ mpc' = "returned"
  /\ UNCHANGED <<tier, dry_run, resume_from, configs, expIdx, success_count,
                 fail_count, active, status, launched>>
  /\ UNCHANGED <<runVars, idVars, parseVars>>

\* main counts the run; after a failed one it asks whether to continue and
\* leaves the loop on any answer but y.
CountRun ==
  /\ mpc = "returned"
  /\ IF last_run.success
     THEN /\ success_count' = success_count + 1
          /\ expIdx' = expIdx + 1
          /\ mpc' = "loop"
          /\ UNCHANGED fail_count
     ELSE /\ fail_count' = fail_count + 1
          /\ \E response \in {"y", "n"} :
               IF response = "y"
               THEN expIdx' = expIdx + 1 /\ mpc' = "loop"
               ELSE UNCHANGED expIdx /\ mpc' = "tally"
          /\ UNCHANGED success_count
  /\ last_run' = NoRun
  /\ UNCHANGED <<tier, dry_run, resume_from, configs, executed, active,
                 namespace, status, launched, faults>>
  /\ UNCHANGED <<runVars, idVars, parseVars>>

\* The loop is over or was left: main prints the tally and returns.
LegacyTally ==
  /\ \/ mpc = "tally"
     \/ mpc = "loop" /\ ~(expIdx < Len(configs))
  /\ status' = 0
  /\ mpc' = "exited"
  /\ UNCHANGED <<tier, dry_run, resume_from, configs, expIdx, success_count,
                 fail_count, executed, active, namespace, launched, last_run,
                 faults>>
  /\ UNCHANGED <<runVars, idVars, parseVars>>

LegacyNext ==
  \/ LegacyMain \/ LegacySkip \/ RunSingleExperiment \/ CountRun
  \/ LegacyTally

LegacySpec == LegacyInit /\ [][LegacyNext]_vars

\* C28 as stated: a run whose completion wait expired without the marker is
\* not counted as a success.
C28_ExpiredNotSuccess ==
  [][(mpc = "returned" /\ last_run.expired) =>
       success_count' = success_count]_vars

\* C29 as stated: a NET0 configuration passes the network-profile step with
\* no impairment applied, goes on to the security configuration, and is not
\* reported as failed because of the network-profile step.
C29_BaselinePassesNetworkStep ==
  (mpc = "returned" /\ last_run.net_profile = "NET0") =>
    /\ ~last_run.impaired
    /\ last_run.reached # "network"

\* ------------------------------------------------- the FL server's log
\* src/fl_server.py: main() logs experiment_start, the strategy logs
\* round_start in configure_fit and round_end in aggregate_fit, and main
\* logs experiment_end when the rounds are over.  One JSON object a line.

\* --num-rounds
MaxServerRounds == 2

\* Seconds the server runs.
MaxClock == 3

\* self.target_accuracies, in percent
TargetAccuracies == {95, 97, 98}

\* Accuracies evaluate_global_model returns, in percent.
ServerAccuracies == {50, 96, 99}

\* A JSON number: what json.dumps writes for time.time().
Number(x) == [type |-> "number", value |-> x]

\* entry.get(key, default)
Get(obj, key, default) == IF key \in DOMAIN obj THEN obj[key] ELSE default

\* None, for a round number the entry does not carry.
NoRound == 0

\* The seconds datetime.fromisoformat(ts.replace("Z", "+00:00")) gives for
\* the parser: only a string can be converted; for a number .replace raises
\* and for a missing key the value is None, and both end as BadTs.
IsoSeconds(v) == IF v.type = "string" THEN v.value ELSE BadTs

\* The parser's accuracies are hundredths of the number in the entry.
AsHundredths(x) == 100 * x

\* What parse_server_log's branches read from one JSON object of the log.
ReadEntry(obj) ==
  [event |-> Get(obj, "event", "none"),
   round |-> Get(obj, "round", NoRound),
   timestamp |-> IsoSeconds(Get(obj, "timestamp", [type |-> "null"])),
   test_accuracy |-> AsHundredths(Get(obj, "test_accuracy", NoAccuracy)),
   num_failures |-> Get(obj, "num_failures", NoFailures)]

\* The loop of parse_server_log over the lines, then the durations.
RECURSIVE FoldLines(_, _)
FoldLines(rs, lines) ==
  IF lines = <<>> THEN rs
  ELSE LET e == ReadEntry(Head(lines))
       IN FoldLines(IF e.event = "round_start" THEN Append(rs, OpenRound(e))
                    ELSE IF e.event = "round_end" THEN CloseRound(rs, e)
                    ELSE rs,
                    Tail(lines))
parse_server_log(lines) ==
  LET rs == FoldLines(<<>>, lines)
  IN [k \in 1..Len(rs) |-> WithDuration(rs[k])]

ServerInit ==
  /\ spc = "init"
  /\ server_round = 0
  /\ round_open = FALSE
  /\ wall \in 1..2
  /\ tta_reached = {}
  /\ serverLog = <<>>
  /\ rounds = <<>>
  /\ entry = NotJson
  /\ lineNo = 0
  /\ ppc = "waiting"
  /\ columns = {}
  /\ summary = <<>>
  /\ RunIdle
  /\ MatrixIdle
  /\ IdIdle

\* A second passes.
ServerTick ==
  /\ ppc = "waiting"
  /\ wall < MaxClock
  /\ wall' = wall + 1
  /\ UNCHANGED <<spc, server_round, round_open, tta_reached, serverLog>>
  /\ UNCHANGED <<rounds, entry, lineNo, ppc, columns, summary>>
  /\ UNCHANGED <<runVars, matrixVars, idVars>>

\* main logs experiment_start and starts the server.
ServerStart ==
  /\ ppc = "waiting"
  /\ spc = "init"
  /\ serverLog' = Append(serverLog,
       [event |-> "experiment_start", timestamp |-> Number(wall)])
  /\ spc' = "serving"
  /\ UNCHANGED <<server_round, round_open, wall, tta_reached>>
  /\ UNCHANGED <<rounds, entry, lineNo, ppc, columns, summary>>
  /\ UNCHANGED <<runVars, matrixVars, idVars>>

\* configure_fit for the next round logs round_start.
ConfigureFit ==
  /\ ppc = "waiting"
  /\ spc = "serving"
  /\ ~round_open
  /\ server_round < MaxServerRounds
  /\ server_round' = server_round + 1
  /\ round_open' = TRUE
  /\ serverLog' = Append(serverLog,
       [event |-> "round_start", round_id |-> server_round + 1,
        timestamp |-> Number(wall)])
  /\ UNCHANGED <<spc, wall, tta_reached>>
  /\ UNCHANGED <<rounds, entry, lineNo, ppc, columns, summary>>
  /\ UNCHANGED <<runVars, matrixVars, idVars>>

\* The target_accuracy_reached objects of one aggregate_fit, in the order of
\* self.target_accuracies.
RECURSIVE Milestones(_, _, _, _)
Milestones(targets, accuracy, reached, t) ==
  IF targets = {} THEN <<>>
  ELSE LET target == CHOOSE x \in targets : \A y \in targets : x <= y
           rest == Milestones(targets \ {target}, accuracy, reached, t)
       IN IF accuracy >= target /\ target \notin reached
          THEN <<[event |-> "target_accuracy_reached",
                  target_accuracy |-> target, round_id |-> server_round,
                  timestamp |-> Number(t)]>> \o rest
          ELSE rest

\* aggregate_fit for the open round: the milestones reached first in this
\* round, then round_end with the counts of clients and the accuracy.
AggregateFit ==
  /\ ppc = "waiting"
  /\ spc = "serving"
  /\ round_open
  /\ \E failed \in 0..NumClients, accuracy \in ServerAccuracies :
       /\ tta_reached' =
            tta_reached \cup {x \in TargetAccuracies : accuracy >= x}
       /\ serverLog' =
            serverLog
              \o Milestones(TargetAccuracies, accuracy, tta_reached, wall)
              \o <<[event |-> "round_end", round_id |-> server_round,
                    timestamp |-> Number(wall),
                    num_clients_success |-> NumClients - failed,
                    num_clients_failed |-> failed,
                    test_accuracy |-> accuracy]>>
  /\ round_open' = FALSE
  /\ UNCHANGED <<spc, server_round, wall>>
  /\ UNCHANGED <<rounds, entry, lineNo, ppc, columns, summary>>
  /\ UNCHANGED <<runVars, matrixVars, idVars>>

\* start_server returns after the last round; main logs experiment_end.
ServerEnd ==
  /\ ppc = "waiting"
  /\ spc = "serving"
  /\ ~round_open
  /\ server_round = MaxServerRounds
  /\ serverLog' = Append(serverLog,
       [event |-> "experiment_end", timestamp |-> Number(wall)])
  /\ spc' = "ended"
  /\ UNCHANGED <<server_round, round_open, wall, tta_reached>>
  /\ UNCHANGED <<rounds, entry, lineNo, ppc, columns, summary>>
  /\ UNCHANGED <<runVars, matrixVars, idVars>>

\* The log as it stands is collected and parse_server_log reads it.
ParseCollected ==
  /\ ppc = "waiting"
  /\ rounds' = parse_server_log(serverLog)
  /\ lineNo' = Len(serverLog)
  /\ ppc' = "returned"
  /\ UNCHANGED <<entry, columns, summary, serverVars>>
  /\ UNCHANGED <<runVars, matrixVars, idVars>>

ServerNext ==
  \/ ServerTick \/ ServerStart \/ ConfigureFit \/ AggregateFit \/ ServerEnd
  \/ ParseCollected

ServerSpec == ServerInit /\ [][ServerNext]_vars

\* C30 as stated: parsing the server log of a run in which N rounds started
\* and ended gives N round records, the k-th with round number k and a
\* non-null duration.
C30_ServerLogParses ==
  (ppc = "returned" /\ ~round_open) =>
    /\ Len(rounds) = server_round
    /\ \A k \in 1..Len(rounds) :
         /\ rounds[k].round_id = k
         /\ rounds[k].duration # <<>>
====
